---- MODULE Spec2Model ----
(***************************************************************************)
(* Model of the WasDev editor (src/src/main.rs): a cursive TextArea holding *)
(* a UTF-8 buffer and a byte cursor, the shared Editor selection state, and *)
(* the key-bound callbacks that move the cursor, toggle / expand / reduce   *)
(* the selection and transform the text.                                    *)
(*                                                                          *)
(* A string is a sequence of bytes.  ASCII bytes are written as themselves; *)
(* the two-byte character e-acute is <<"C3","A9">> and its upper case       *)
(* E-acute is <<"C3","89">>.  Offsets are 0-based byte offsets as in Rust.  *)
(***************************************************************************)
EXTENDS Integers, Sequences, FiniteSets, TLC

\* Largest number of characters of the text the buffer holds initially.
MaxChars == 2

\* The same, where only the cursor is moved.
MaxMoveChars == 3

\* The same, where the text is only transformed.
MaxTransformChars == 4

\* The same, where the commands come from several threads.
MaxThreadChars == 1

\* Largest number of bytes the buffer is let grow to: stale markers can pile
\* up without bound.
MaxBytes == 8

\* ------------------------------------------------------------------------
\* Bytes, characters and UTF-8 boundaries
\* ------------------------------------------------------------------------

\* Continuation bytes: a byte offset in front of one is inside a character.
ContBytes == {"A9", "89"}

\* The characters a user can have typed into the buffer before the commands.
e_acute == <<"C3", "A9">>
Alphabet == {<<"a">>, <<" ">>, <<"\n">>, e_acute, <<"<">>, <<"|">>, <<">">>}

Min(a, b) == IF a <= b THEN a ELSE b

\* str::is_char_boundary: 0 and len are boundaries, an offset beyond len is not.
is_char_boundary(s, i) ==
    \/ i = 0
    \/ i = Len(s)
    \/ (i > 0 /\ i < Len(s) /\ s[i + 1] \notin ContBytes)

\* &s[i..j]: the slice itself, and whether taking it panics.
Slice(s, i, j) == SubSeq(s, i + 1, j)
SliceOk(s, i, j) ==
    /\ i <= j
    /\ j <= Len(s)
    /\ is_char_boundary(s, i)
    /\ is_char_boundary(s, j)

\* char::len_utf8 of the character that starts at byte offset i (i < len).
len_utf8(s, i) == IF s[i + 1] = "C3" THEN 2 ELSE 1

\* str::chars().count()
chars_count(s) == Cardinality({k \in 1..Len(s) : s[k] \notin ContBytes})

\* str::find / str::rfind of a one-byte character: offset, or -1 for None.
find(s, ch) ==
    IF \E k \in 1..Len(s) : s[k] = ch
    THEN (CHOOSE k \in 1..Len(s) : s[k] = ch /\ \A j \in 1..(k - 1) : s[j] # ch) - 1
    ELSE -1
rfind(s, ch) ==
    IF \E k \in 1..Len(s) : s[k] = ch
    THEN (CHOOSE k \in 1..Len(s) : s[k] = ch /\ \A j \in (k + 1)..Len(s) : s[j] # ch) - 1
    ELSE -1

\* Whether pat occurs in s at byte offset i.
StartsAt(s, pat, i) ==
    /\ i + Len(pat) <= Len(s)
    /\ \A k \in 1..Len(pat) : s[i + k] = pat[k]

\* str::replace(pat, to): every non-overlapping match, scanning left to right.
RECURSIVE replace_from(_, _, _, _)
replace_from(s, pat, to, i) ==
    IF i >= Len(s) THEN <<>>
    ELSE IF Len(pat) > 0 /\ StartsAt(s, pat, i)
         THEN to \o replace_from(s, pat, to, i + Len(pat))
         ELSE <<s[i + 1]>> \o replace_from(s, pat, to, i + 1)
replace(s, pat, to) == replace_from(s, pat, to, 0)

\* Byte offset of the n-th character (0-based) of s, or -1 when s has no
\* such character: what char_indices().enumerate() yields at i == n.
nth_char_index(s, n) ==
    LET starts == {k \in 0..(Len(s) - 1) : s[k + 1] \notin ContBytes}
    IN  IF \E k \in starts : Cardinality({j \in starts : j < k}) = n
        THEN CHOOSE k \in starts : Cardinality({j \in starts : j < k}) = n
        ELSE -1

\* char::to_uppercase / to_lowercase on the bytes of the modelled characters
\* (the ASCII letters below, e-acute <-> E-acute; every other character has
\* no case).
LowerLetters == <<"a", "d", "e", "h", "l", "o", "r", "w">>
UpperLetters == <<"A", "D", "E", "H", "L", "O", "R", "W">>
upper_byte(b) ==
    IF \E k \in DOMAIN LowerLetters : LowerLetters[k] = b
    THEN UpperLetters[CHOOSE k \in DOMAIN LowerLetters : LowerLetters[k] = b]
    ELSE IF b = "A9" THEN "89" ELSE b
lower_byte(b) ==
    IF \E k \in DOMAIN UpperLetters : UpperLetters[k] = b
    THEN LowerLetters[CHOOSE k \in DOMAIN UpperLetters : UpperLetters[k] = b]
    ELSE IF b = "89" THEN "A9" ELSE b
to_uppercase(s) == [k \in 1..Len(s) |-> upper_byte(s[k])]
to_lowercase(s) == [k \in 1..Len(s) |-> lower_byte(s[k])]

\* char::is_whitespace on the modelled alphabet.
is_whitespace(b) == b \in {" ", "\n"}

\* str::split_whitespace: the maximal runs of non-whitespace, in order.
RECURSIVE split_whitespace(_)
split_whitespace(s) ==
    IF s = <<>> THEN <<>>
    ELSE IF is_whitespace(s[1]) THEN split_whitespace(Tail(s))
    ELSE LET stop == IF \E k \in 1..Len(s) : is_whitespace(s[k])
                     THEN CHOOSE k \in 1..Len(s) :
                              /\ is_whitespace(s[k])
                              /\ \A j \in 1..(k - 1) : ~is_whitespace(s[j])
                     ELSE Len(s) + 1
         IN  <<SubSeq(s, 1, stop - 1)>> \o split_whitespace(SubSeq(s, stop, Len(s)))

\* The closure of capitalize as it would be if it upper-cased the whole word.
capitalize_word_all_upper(word) == to_uppercase(word)

\* The closure of capitalize: first character upper-cased, the rest kept.
capitalize_word(word) ==
    LET n == len_utf8(word, 0)
    IN  to_uppercase(SubSeq(word, 1, n)) \o SubSeq(word, n + 1, Len(word))

\* Vec<String>::join(" ")
RECURSIVE join_space(_)
join_space(ws) ==
    IF ws = <<>> THEN <<>>
    ELSE IF Len(ws) = 1 THEN ws[1]
    ELSE ws[1] \o <<" ">> \o join_space(Tail(ws))

capitalize(text) ==
    LET ws == split_whitespace(text)
    IN  join_space([k \in 1..Len(ws) |-> capitalize_word(ws[k])])

\* ------------------------------------------------------------------------
\* State
\* ------------------------------------------------------------------------

VARIABLES
    content,                    \* TextArea content (bytes)
    cursor,                     \* TextArea cursor (byte offset)
    selection,                  \* Editor.selection
    selection_start,            \* Editor.selection_start
    selection_end,              \* Editor.selection_end
    original_selection_start,   \* Editor.original_selection_start
    original_selection_end,     \* Editor.original_selection_end
    panicked,                   \* a slice panicked: the process is gone
    last,                       \* history: the command that ran last
    pre,                        \* history: the state it ran in
    last2,                      \* history: the command before that one
    pre2,                       \* history: the state that one ran in
    depth,                      \* which history is kept (see Start)
    chain,                      \* history: how far a run of toggle, expand...,
                                \* reduce has come and the state after its
                                \* toggle, or the origin of the selection
    procs,                      \* per thread: where it is in its callback and
                                \* the locals it holds
    lock                        \* holder of the Mutex<Editor>, 0 when free

vars == <<content, cursor, selection, selection_start, selection_end,
          original_selection_start, original_selection_end, panicked,
          last, pre, last2, pre2, depth, chain, procs, lock>>

\* The view and the editor as one record, as the callbacks see them.
State ==
    [content |-> content, cursor |-> cursor, selection |-> selection,
     selection_start |-> selection_start, selection_end |-> selection_end,
     original_selection_start |-> original_selection_start,
     original_selection_end |-> original_selection_end,
     panicked |-> panicked]

\* A panic unwinds out of siv.run(): nothing further is written.
Panic(s) == [s EXCEPT !.panicked = TRUE]

\* The markers written into the buffer around the selection.
MarkerOpen == <<"<", "|">>
MarkerClose == <<"|", ">">>

\* format!("{}<|{}|>{}", a, b, c)
format_marked(a, b, c) == a \o MarkerOpen \o b \o MarkerClose \o c

\* content.replace("<|", "").replace("|>", "")
strip_markers(s) == replace(replace(s, MarkerOpen, <<>>), MarkerClose, <<>>)

\* TextArea::set_content / set_cursor of the cursive widget the callbacks
\* drive (library code, called from main.rs).  set_cursor stores the offset
\* as given.  set_content stores the text, then pulls the cursor back to
\* min(cursor, len) and from there down to the nearest character boundary.
back_to_boundary(s, c) ==
    CHOOSE k \in 0..c : is_char_boundary(s, k) /\ \A j \in (k + 1)..c : ~is_char_boundary(s, j)
set_content(s, new_content) ==
    [s EXCEPT !.content = new_content,
              !.cursor = back_to_boundary(new_content, Min(@, Len(new_content)))]
set_cursor(s, c) == [s EXCEPT !.cursor = c]

\* Editor::update_selection as it would be with the end offset assigned from
\* the start offset.
update_selection_end_from_start(s, text, start, end) ==
    IF start = end
    THEN [s EXCEPT !.selection = <<>>,
                   !.selection_start = start, !.selection_end = start]
    ELSE IF ~SliceOk(text, start, end) THEN Panic(s)
    ELSE [s EXCEPT !.selection = Slice(text, start, end),
                   !.selection_start = start, !.selection_end = start]

\* Editor::update_selection
update_selection(s, text, start, end) ==
    IF start = end
    THEN [s EXCEPT !.selection = <<>>,
                   !.selection_start = start, !.selection_end = end]
    ELSE IF ~SliceOk(text, start, end) THEN Panic(s)
    ELSE [s EXCEPT !.selection = Slice(text, start, end),
                   !.selection_start = start, !.selection_end = end]

\* ------------------------------------------------------------------------
\* Cursor movement callbacks
\* ------------------------------------------------------------------------

\* Ctrl+d as it would be with the offset advanced by one byte.
move_right_one_byte(s) ==
    LET cur == s.cursor
    IN  IF cur < Len(s.content) THEN set_cursor(s, cur + 1) ELSE s


\* Ctrl+d
move_right(s) ==
    LET cur == s.cursor
    IN  IF cur < Len(s.content)
        THEN IF ~SliceOk(s.content, cur, Len(s.content)) THEN Panic(s)
             ELSE set_cursor(s, cur + len_utf8(s.content, cur))
        ELSE s

\* content[..cur].char_indices().last().map(|(i, _)| i).unwrap_or(0)
last_char_index(s) ==
    IF \E k \in 1..Len(s) : s[k] \notin ContBytes
    THEN (CHOOSE k \in 1..Len(s) :
              s[k] \notin ContBytes /\ \A j \in (k + 1)..Len(s) : s[j] \in ContBytes) - 1
    ELSE 0

\* Ctrl+a as it would be with the offset stepped back by one byte.
move_left_one_byte(s) ==
    LET cur == s.cursor
    IN  IF cur > 0 THEN set_cursor(s, cur - 1) ELSE s

\* Ctrl+a
move_left(s) ==
    LET cur == s.cursor
    IN  IF cur > 0
        THEN IF ~SliceOk(s.content, 0, cur) THEN Panic(s)
             ELSE set_cursor(s, last_char_index(Slice(s.content, 0, cur)))
        ELSE s

\* content[..cur].rfind('\n').map(|pos| pos + 1).unwrap_or(0)
line_start(text, cur) ==
    LET pos == rfind(Slice(text, 0, cur), "\n")
    IN  IF pos >= 0 THEN pos + 1 ELSE 0

\* content[from..].find('\n').map(|pos| from + pos).unwrap_or(content.len())
line_end(text, from) ==
    LET pos == find(Slice(text, from, Len(text)), "\n")
    IN  IF pos >= 0 THEN from + pos ELSE Len(text)

\* The loop over content[start..].char_indices().enumerate(): the offset of
\* the character numbered new_col, or start itself when the loop runs out.
col_to_offset(text, start, new_col) ==
    LET b_index == nth_char_index(Slice(text, start, Len(text)), new_col)
    IN  IF b_index >= 0 THEN start + b_index ELSE start

\* Ctrl+s as it would be if, with no next line, it went to the end of the
\* content.
move_down_to_end(s) ==
    LET text == s.content
        cur == s.cursor
    IN  IF ~SliceOk(text, 0, cur) THEN Panic(s)
        ELSE
        LET current_line_start == line_start(text, cur)
            col == chars_count(Slice(text, current_line_start, cur))
            current_line_end == line_end(text, cur)
        IN  IF current_line_end < Len(text)
            THEN LET next_line_start == current_line_end + 1
                     next_line_end == line_end(text, next_line_start)
                     next_line_length ==
                         chars_count(Slice(text, next_line_start, next_line_end))
                     new_col == Min(col, next_line_length)
                 IN  set_cursor(s, col_to_offset(text, next_line_start, new_col))
            ELSE set_cursor(s, Len(text))


\* Ctrl+s
move_down(s) ==
    LET text == s.content
        cur == s.cursor
    IN  IF ~SliceOk(text, 0, cur) THEN Panic(s)
        ELSE
        LET current_line_start == line_start(text, cur)
            col == chars_count(Slice(text, current_line_start, cur))
            current_line_end == line_end(text, cur)
        IN  IF current_line_end < Len(text)
            THEN LET next_line_start == current_line_end + 1
                     next_line_end == line_end(text, next_line_start)
                     next_line_length ==
                         chars_count(Slice(text, next_line_start, next_line_end))
                     new_col == Min(col, next_line_length)
                 IN  set_cursor(s, col_to_offset(text, next_line_start, new_col))
            ELSE s

\* Ctrl+w
move_up(s) ==
    LET text == s.content
        cur == s.cursor
    IN  IF ~SliceOk(text, 0, cur) THEN Panic(s)
        ELSE
        LET current_line_start == line_start(text, cur)
            col == chars_count(Slice(text, current_line_start, cur))
        IN  IF current_line_start > 0
            THEN LET prev_line_start == line_start(text, current_line_start - 1)
                     prev_line_length ==
                         chars_count(Slice(text, prev_line_start, current_line_start - 1))
                     new_col == Min(col, prev_line_length)
                 IN  set_cursor(s, col_to_offset(text, prev_line_start, new_col))
            ELSE s

\* ------------------------------------------------------------------------
\* Selection callbacks
\* ------------------------------------------------------------------------

\* Ctrl+p
expand_selection(s) ==
    LET cleaned_content == strip_markers(s.content)
        n == Len(cleaned_content)
    IN  IF s.selection_start > 0 /\ ~SliceOk(cleaned_content, 0, s.selection_start)
        THEN Panic(s)
        ELSE IF ~SliceOk(cleaned_content, s.selection_end, n) THEN Panic(s)
        ELSE
        LET new_bound_l ==
                IF s.selection_start > 0
                THEN LET pos == rfind(Slice(cleaned_content, 0, s.selection_start), " ")
                     IN  IF pos >= 0 THEN pos + 1 ELSE 0
                ELSE 0
            new_bound_r ==
                LET pos == find(Slice(cleaned_content, s.selection_end, n), " ")
                IN  IF pos >= 0 THEN s.selection_end + pos ELSE n
            ed == update_selection(s, cleaned_content, new_bound_l, new_bound_r)
        IN  IF ed.panicked THEN ed
            ELSE set_content(ed,
                     format_marked(Slice(cleaned_content, 0, new_bound_l),
                                   ed.selection,
                                   Slice(cleaned_content, new_bound_r, n)))

\* Ctrl+Space, no selection active: select the character at the cursor.
toggle_on(s) ==
    LET orig_cursor == s.cursor
        text == s.content
    IN  IF orig_cursor < Len(text)
        THEN IF ~SliceOk(text, orig_cursor, Len(text)) THEN Panic(s)
             ELSE
             LET end == orig_cursor + len_utf8(text, orig_cursor)
                 ed == [update_selection(s, text, orig_cursor, end)
                            EXCEPT !.original_selection_start = orig_cursor,
                                   !.original_selection_end = end]
                 new_content == format_marked(Slice(text, 0, orig_cursor),
                                              ed.selection,
                                              Slice(text, end, Len(text)))
             IN  set_cursor(set_content(ed, new_content), orig_cursor + 2)
        ELSE s

\* orig_cursor.saturating_sub(2)
saturating_sub2(c) == IF c >= 2 THEN c - 2 ELSE 0

\* Ctrl+Space with a selection as it would be if it removed the markers the
\* way Ctrl+p and Ctrl+n do, by stripping every "<|" and "|>".
toggle_off_stripping(s) ==
    LET orig_cursor == s.cursor
        ed == [set_content(s, strip_markers(s.content))
                   EXCEPT !.selection = <<>>,
                          !.selection_start = orig_cursor,
                          !.selection_end = orig_cursor]
    IN  set_cursor(ed, saturating_sub2(orig_cursor))

\* Ctrl+Space, selection active: remove the markers, clear the selection.
toggle_off(s) ==
    LET orig_cursor == s.cursor
        marker == MarkerOpen \o s.selection \o MarkerClose
        new_content == replace(s.content, marker, s.selection)
        ed == [set_content(s, new_content)
                   EXCEPT !.selection = <<>>,
                          !.selection_start = orig_cursor,
                          !.selection_end = orig_cursor]
    IN  set_cursor(ed, saturating_sub2(orig_cursor))

\* Ctrl+Space
toggle_selection(s) == IF s.selection = <<>> THEN toggle_on(s) ELSE toggle_off(s)

\* Ctrl+n
reduce_selection(s) ==
    LET cleaned_content == strip_markers(s.content)
        n == Len(cleaned_content)
        orig_start == s.original_selection_start
        orig_end == s.original_selection_end
        ed == update_selection(s, cleaned_content, orig_start, orig_end)
    IN  IF ed.panicked THEN ed
        ELSE IF ~SliceOk(cleaned_content, 0, orig_start) THEN Panic(ed)
        ELSE IF ~SliceOk(cleaned_content, orig_start, orig_end) THEN Panic(ed)
        ELSE IF ~SliceOk(cleaned_content, orig_end, n) THEN Panic(ed)
        ELSE set_cursor(
                 set_content(ed,
                     format_marked(Slice(cleaned_content, 0, orig_start),
                                   Slice(cleaned_content, orig_start, orig_end),
                                   Slice(cleaned_content, orig_end, n))),
                 orig_start + 2)

\* ------------------------------------------------------------------------
\* Transformation menu (Ctrl+u, then a choice submitted)
\* ------------------------------------------------------------------------

Choice == {"Upper", "Lower", "Cap"}

transform(s, item) ==
    set_content(s, CASE item = "Upper" -> to_uppercase(s.content)
                     [] item = "Lower" -> to_lowercase(s.content)
                     [] item = "Cap" -> capitalize(s.content))

\* ------------------------------------------------------------------------
\* Initial states and commands
\* ------------------------------------------------------------------------

\* Whether the text holds a marker.
HasMarker(s) ==
    \E i \in 0..(Len(s) - 1) : StartsAt(s, MarkerOpen, i) \/ StartsAt(s, MarkerClose, i)

\* The texts of at most n characters of the alphabet.
RECURSIVE Texts(_)
Texts(n) ==
    IF n = 0 THEN {<<>>}
    ELSE LET shorter == Texts(n - 1)
         IN  shorter \cup {t \o c : t \in shorter, c \in Alphabet}

\* What the history holds where it does not reach.
NoState ==
    [content |-> <<>>, cursor |-> 0, selection |-> <<>>,
     selection_start |-> 0, selection_end |-> 0,
     original_selection_start |-> 0, original_selection_end |-> 0,
     panicked |-> FALSE]

\* History of a run "toggle on, expand one or more times, reduce".
NoChain == [phase |-> "none", at |-> NoState]
chain_after(cmd, t) ==
    IF cmd = "ToggleSelection" /\ selection = <<>> /\ t.selection # <<>>
    THEN [phase |-> "toggled", at |-> t]
    ELSE IF cmd = "ExpandSelection" /\ chain.phase \in {"toggled", "expanded"}
                                   /\ ~t.panicked
    THEN [chain EXCEPT !.phase = "expanded"]
    ELSE IF cmd = "ReduceSelection" /\ chain.phase = "expanded"
    THEN [chain EXCEPT !.phase = "reduced"]
    ELSE NoChain

\* The threads that dispatch commands, where the host dispatches them from
\* more than one, and a thread that is in no callback.
Threads == {1, 2}
IdleProc == [pc |-> "idle", text |-> <<>>, b1 |-> 0, b2 |-> 0]

\* The four move commands.
MoveCommands == {"MoveRight", "MoveLeft", "MoveDown", "MoveUp"}

\* History of a selection made by a toggle on a buffer without markers: the
\* state the toggle ran in, kept while the selection is expanded, reduced
\* and the cursor moved, and through the toggle that ends it.
origin_after(cmd, t) ==
    IF cmd = "ToggleSelection" /\ selection = <<>> /\ ~HasMarker(content)
                               /\ t.selection # <<>>
    THEN [phase |-> "selected", at |-> State]
    ELSE IF chain.phase = "selected"
            /\ cmd \in {"ExpandSelection", "ReduceSelection"} \cup MoveCommands
    THEN chain
    ELSE IF chain.phase = "selected" /\ cmd = "ToggleSelection"
    THEN [chain EXCEPT !.phase = "restored"]
    ELSE NoChain

\* The state Editor::new() and an idle TextArea are in, once the user has
\* typed one of the texts and left the cursor somewhere in it; d is the
\* history kept: 0 none, 1 the last command, 2 the last two commands and the
\* run of toggle, expand, reduce, 3 the origin of the selection only.
Start(texts, d) ==
    /\ content \in texts
    /\ cursor \in {c \in 0..Len(content) : is_char_boundary(content, c)}
    /\ selection = <<>>
    /\ selection_start = 0
    /\ selection_end = 0
    /\ original_selection_start = 0
    /\ original_selection_end = 0
    /\ panicked = FALSE
    /\ last = "Init"
    /\ pre = IF d \in {1, 2} THEN State ELSE NoState
    /\ last2 = "Init"
    /\ pre2 = IF d = 2 THEN State ELSE NoState
    /\ depth = d
    /\ chain = NoChain
    /\ procs = [p \in Threads |-> IdleProc]
    /\ lock = 0

Init == Start({t \in Texts(MaxChars) : ~HasMarker(t)}, 1)

\* One command runs to completion on the event loop.
Run(cmd, t) ==
    /\ ~panicked
    /\ (Len(t.content) <= MaxBytes \/ Len(t.content) <= Len(content))
    /\ content' = t.content
    /\ cursor' = t.cursor
    /\ selection' = t.selection
    /\ selection_start' = t.selection_start
    /\ selection_end' = t.selection_end
    /\ original_selection_start' = t.original_selection_start
    /\ original_selection_end' = t.original_selection_end
    /\ panicked' = t.panicked
    /\ last' = IF depth \in {1, 2} THEN cmd ELSE last
    /\ pre' = IF depth \in {1, 2} THEN State ELSE pre
    /\ last2' = IF depth = 2 THEN last ELSE last2
    /\ pre2' = IF depth = 2 THEN pre ELSE pre2
    /\ depth' = depth
    /\ chain' = IF depth = 2 THEN chain_after(cmd, t)
                ELSE IF depth = 3 THEN origin_after(cmd, t)
                ELSE chain
    /\ UNCHANGED <<procs, lock>>

MoveRight == Run("MoveRight", move_right(State))
MoveLeft == Run("MoveLeft", move_left(State))
MoveDown == Run("MoveDown", move_down(State))
MoveUp == Run("MoveUp", move_up(State))
ExpandSelection == Run("ExpandSelection", expand_selection(State))
ToggleSelection == Run("ToggleSelection", toggle_selection(State))
ReduceSelection == Run("ReduceSelection", reduce_selection(State))
\* The transformation is remembered by the choice submitted.
Transform == \E item \in Choice : Run(item, transform(State, item))

Next ==
    \/ MoveRight
    \/ MoveLeft
    \/ MoveDown
    \/ MoveUp
    \/ ExpandSelection
    \/ ToggleSelection
    \/ ReduceSelection
    \/ Transform

Spec == Init /\ [][Next]_vars

\* The transformation menu alone, over every text of a few characters and
\* the text "hello world", with the cursor at the start, remembering the
\* last two choices.
hello_world == <<"h", "e", "l", "l", "o", " ", "w", "o", "r", "l", "d">>

InitTransform ==
    /\ Start(Texts(MaxTransformChars) \cup {hello_world}, 2)
    /\ cursor = 0

NextTransform == Transform

SpecTransform == InitTransform /\ [][NextTransform]_vars

\* The cursor and selection callbacks without the transformation menu,
\* remembering the last command.
InitEdit == Start({t \in Texts(MaxChars) : ~HasMarker(t)}, 1)

NextEdit ==
    \/ MoveRight
    \/ MoveLeft
    \/ MoveDown
    \/ MoveUp
    \/ ExpandSelection
    \/ ToggleSelection
    \/ ReduceSelection

SpecEdit == InitEdit /\ [][NextEdit]_vars

\* ------------------------------------------------------------------------
\* The selection callbacks dispatched from several threads: each callback in
\* the steps between which another thread can run, the Mutex<Editor> taken
\* and dropped where the code takes and drops it.
\* ------------------------------------------------------------------------

\* The second half of the Ctrl+p callback, on the locals it read before.
expand_from(s, cleaned_content, start, end) ==
    LET n == Len(cleaned_content)
    IN  IF start > 0 /\ ~SliceOk(cleaned_content, 0, start)
        THEN Panic(s)
        ELSE IF ~SliceOk(cleaned_content, end, n) THEN Panic(s)
        ELSE
        LET new_bound_l ==
                IF start > 0
                THEN LET pos == rfind(Slice(cleaned_content, 0, start), " ")
                     IN  IF pos >= 0 THEN pos + 1 ELSE 0
                ELSE 0
            new_bound_r ==
                LET pos == find(Slice(cleaned_content, end, n), " ")
                IN  IF pos >= 0 THEN end + pos ELSE n
            ed == update_selection(s, cleaned_content, new_bound_l, new_bound_r)
        IN  IF ed.panicked THEN ed
            ELSE set_content(ed,
                     format_marked(Slice(cleaned_content, 0, new_bound_l),
                                   ed.selection,
                                   Slice(cleaned_content, new_bound_r, n)))

\* The end of the Ctrl+n callback, on the locals it read before.
reduce_render(s, cleaned_content, orig_start, orig_end) ==
    LET n == Len(cleaned_content)
    IN  IF ~SliceOk(cleaned_content, 0, orig_start) THEN Panic(s)
        ELSE IF ~SliceOk(cleaned_content, orig_start, orig_end) THEN Panic(s)
        ELSE IF ~SliceOk(cleaned_content, orig_end, n) THEN Panic(s)
        ELSE set_cursor(
                 set_content(s,
                     format_marked(Slice(cleaned_content, 0, orig_start),
                                   Slice(cleaned_content, orig_start, orig_end),
                                   Slice(cleaned_content, orig_end, n))),
                 orig_start + 2)

\* A step of thread p that writes the view and the editor as in t, takes
\* its locals to np and the lock to l.
Step(p, t, np, l) ==
    /\ ~panicked
    /\ (Len(t.content) <= MaxBytes \/ Len(t.content) <= Len(content))
    /\ content' = t.content
    /\ cursor' = t.cursor
    /\ selection' = t.selection
    /\ selection_start' = t.selection_start
    /\ selection_end' = t.selection_end
    /\ original_selection_start' = t.original_selection_start
    /\ original_selection_end' = t.original_selection_end
    /\ panicked' = t.panicked
    /\ procs' = [procs EXCEPT ![p] = np]
    /\ lock' = l
    /\ UNCHANGED <<last, pre, last2, pre2, depth, chain>>

\* Ctrl+p: strip the markers; lock, read the bounds, unlock; lock, compute
\* and write the selection and the view; unlock at the end of the closure.
ExpandStrip(p) ==
    /\ procs[p].pc = "idle"
    /\ Step(p, State, [pc |-> "expand_stripped", text |-> strip_markers(content),
                       b1 |-> 0, b2 |-> 0], lock)
ExpandRead(p) ==
    /\ procs[p].pc = "expand_stripped"
    /\ lock = 0
    /\ Step(p, State, [procs[p] EXCEPT !.pc = "expand_read",
                                       !.b1 = selection_start,
                                       !.b2 = selection_end], p)
ExpandUnlock(p) ==
    /\ procs[p].pc = "expand_read"
    /\ lock = p
    /\ Step(p, State, [procs[p] EXCEPT !.pc = "expand_unlocked"], 0)
ExpandWrite(p) ==
    /\ procs[p].pc = "expand_unlocked"
    /\ lock = 0
    /\ Step(p, expand_from(State, procs[p].text, procs[p].b1, procs[p].b2),
            [procs[p] EXCEPT !.pc = "expand_written"], p)
ExpandRelease(p) ==
    /\ procs[p].pc = "expand_written"
    /\ lock = p
    /\ Step(p, State, IdleProc, 0)

\* Ctrl+n: strip the markers; lock, read the original bounds, unlock; lock,
\* update the selection, unlock; write the view.
ReduceStrip(p) ==
    /\ procs[p].pc = "idle"
    /\ Step(p, State, [pc |-> "reduce_stripped", text |-> strip_markers(content),
                       b1 |-> 0, b2 |-> 0], lock)
ReduceRead(p) ==
    /\ procs[p].pc = "reduce_stripped"
    /\ lock = 0
    /\ Step(p, State, [procs[p] EXCEPT !.pc = "reduce_read",
                                       !.b1 = original_selection_start,
                                       !.b2 = original_selection_end], p)
ReduceUnlock(p) ==
    /\ procs[p].pc = "reduce_read"
    /\ lock = p
    /\ Step(p, State, [procs[p] EXCEPT !.pc = "reduce_unlocked"], 0)
ReduceUpdate(p) ==
    /\ procs[p].pc = "reduce_unlocked"
    /\ lock = 0
    /\ Step(p, update_selection(State, procs[p].text, procs[p].b1, procs[p].b2),
            [procs[p] EXCEPT !.pc = "reduce_updated"], p)
ReduceRelease(p) ==
    /\ procs[p].pc = "reduce_updated"
    /\ lock = p
    /\ Step(p, State, [procs[p] EXCEPT !.pc = "reduce_released"], 0)
ReduceRender(p) ==
    /\ procs[p].pc = "reduce_released"
    /\ Step(p, reduce_render(State, procs[p].text, procs[p].b1, procs[p].b2),
            IdleProc, lock)

\* Ctrl+Space: read cursor and content; lock and do the whole toggle;
\* unlock at the end of the closure.
ToggleRead(p) ==
    /\ procs[p].pc = "idle"
    /\ Step(p, State, [pc |-> "toggle_read", text |-> content,
                       b1 |-> cursor, b2 |-> 0], lock)
ToggleLocked(p) ==
    /\ procs[p].pc = "toggle_read"
    /\ lock = 0
    /\ Step(p, toggle_selection([State EXCEPT !.content = procs[p].text,
                                              !.cursor = procs[p].b1]),
            [procs[p] EXCEPT !.pc = "toggle_locked"], p)
ToggleRelease(p) ==
    /\ procs[p].pc = "toggle_locked"
    /\ lock = p
    /\ Step(p, State, IdleProc, 0)

InitThreads == Start({t \in Texts(MaxThreadChars) : ~HasMarker(t)}, 0)

NextThreads ==
    \E p \in Threads :
        \/ ExpandStrip(p)
        \/ ExpandRead(p)
        \/ ExpandUnlock(p)
        \/ ExpandWrite(p)
        \/ ExpandRelease(p)
        \/ ReduceStrip(p)
        \/ ReduceRead(p)
        \/ ReduceUnlock(p)
        \/ ReduceUpdate(p)
        \/ ReduceRelease(p)
        \/ ReduceRender(p)
        \/ ToggleRead(p)
        \/ ToggleLocked(p)
        \/ ToggleRelease(p)

SpecThreads == InitThreads /\ [][NextThreads]_vars


\* The same commands, remembering the buffer a toggled selection was made
\* in.
InitText == Start({t \in Texts(MaxChars) : ~HasMarker(t)}, 3)

SpecText == InitText /\ [][NextEdit]_vars

\* The cursor movement callbacks alone, over longer texts (any text: the
\* callbacks treat a marker as two ordinary characters), remembering the
\* last two commands.
InitMove == Start(Texts(MaxMoveChars), 2)

NextMove ==
    \/ MoveRight
    \/ MoveLeft
    \/ MoveDown
    \/ MoveUp

SpecMove == InitMove /\ [][NextMove]_vars

\* The selection callbacks alone, from every marker-free text and cursor,
\* remembering the last two commands.
InitSelect == Start({t \in Texts(MaxChars) : ~HasMarker(t)}, 2)

NextSelect ==
    \/ ToggleSelection
    \/ ExpandSelection
    \/ ReduceSelection

SpecSelect == InitSelect /\ [][NextSelect]_vars

\* ------------------------------------------------------------------------
\* Properties
\* ------------------------------------------------------------------------

\* C1: after any sequence of commands the cursor lies within the content
\* and on a character boundary of it.
C1_CursorOnBoundary ==
    cursor <= Len(content) /\ is_char_boundary(content, cursor)

\* C2: in the idle state, on marker-free content with the cursor before the
\* end, a toggle immediately followed by a toggle gives back the content
\* byte for byte.
C2_ToggleTwiceRestores ==
    (/\ last2 = "ToggleSelection"
     /\ last = "ToggleSelection"
     /\ pre2.selection = <<>>
     /\ ~HasMarker(pre2.content)
     /\ pre2.cursor < Len(pre2.content))
    => content = pre2.content

\* C2 happens: a lone '<' was selected, which puts "<|<|>" into the buffer,
\* and the second toggle gave the text back.
C2_Witness ==
    /\ last2 = "ToggleSelection"
    /\ last = "ToggleSelection"
    /\ pre2.selection = <<>>
    /\ ~HasMarker(pre2.content)
    /\ pre2.cursor < Len(pre2.content)
    /\ pre.selection = <<"<">>
    /\ pre.content # pre2.content
    /\ content = pre2.content

\* C4: a reduce issued with no selection leaves content and cursor as they
\* were.
C4_ReduceIdleIsNoOp ==
    (last = "ReduceSelection" /\ pre.selection = <<>>)
    => (content = pre.content /\ cursor = pre.cursor)

\* C7: on every content, from a character boundary before the end, a move
\* right then a move left comes back to the offset it started from; and from
\* a boundary after the start, so does a move left then a move right.
C7_RightLeftInverse ==
    /\ (/\ last2 = "MoveRight"
        /\ last = "MoveLeft"
        /\ is_char_boundary(pre2.content, pre2.cursor)
        /\ pre2.cursor < Len(pre2.content))
       => (~panicked /\ cursor = pre2.cursor)
    /\ (/\ last2 = "MoveLeft"
        /\ last = "MoveRight"
        /\ is_char_boundary(pre2.content, pre2.cursor)
        /\ pre2.cursor > 0)
       => (~panicked /\ cursor = pre2.cursor)

\* C7 happens: the pair of moves crossed a two-byte character and came back.
C7_Witness ==
    /\ last2 = "MoveRight"
    /\ last = "MoveLeft"
    /\ pre2.cursor < Len(pre2.content)
    /\ pre.cursor = pre2.cursor + 2
    /\ cursor = pre2.cursor
    /\ ~panicked

\* Whether the buffer of state s shows "<|", the tracked selection, "|>" at
\* the tracked offsets, and the text that buffer stands for: the buffer
\* without that marker pair when it is there, the buffer with every marker
\* stripped otherwise.
marked_at_selection(s) ==
    LET n == Len(s.selection)
    IN  /\ s.selection_end = s.selection_start + n
        /\ s.selection_start + n + 4 <= Len(s.content)
        /\ SubSeq(s.content, s.selection_start + 1, s.selection_start + n + 4)
               = MarkerOpen \o s.selection \o MarkerClose
unmarked_text(s) ==
    IF s.selection # <<>> /\ marked_at_selection(s)
    THEN SubSeq(s.content, 1, s.selection_start)
             \o s.selection
             \o SubSeq(s.content, s.selection_end + 5, Len(s.content))
    ELSE strip_markers(s.content)
MarkedAtSelection == marked_at_selection(State)
UnmarkedText == unmarked_text(State)

\* C8: whenever a selection is active, the tracked selection and the buffer
\* agree: with T the marker-free text, the selection is T between the
\* tracked offsets and the buffer reads T before the selection, "<|", the
\* selection, "|>", T after it, so that it holds exactly one marker pair.
C8_SelectionMatchesBuffer ==
    selection # <<>> => (MarkedAtSelection /\ ~HasMarker(UnmarkedText))

\* C9: the selection offsets always lie within the unmarked text, on
\* character boundaries of it, and a toggle that clears a selection leaves
\* both equal to the cursor of the buffer it leaves.
C9_OffsetsInUnmarkedText ==
    LET text == UnmarkedText
    IN  /\ selection_start <= Len(text)
        /\ is_char_boundary(text, selection_start)
        /\ selection_end <= Len(text)
        /\ is_char_boundary(text, selection_end)
        /\ (last = "ToggleSelection" /\ pre.selection # <<>>)
           => (selection_start = cursor /\ selection_end = cursor)

\* C3: a toggle that creates a selection, then one or more expands, then a
\* reduce: the selection state is again the one character the toggle
\* recorded, the buffer shows the markers around exactly that character (as
\* it did right after the toggle), and the cursor is 2 bytes after the left
\* boundary.
C3_ReduceRestoresOriginal ==
    chain.phase = "reduced" =>
        /\ ~panicked
        /\ selection = chain.at.selection
        /\ selection_start = chain.at.selection_start
        /\ selection_end = chain.at.selection_end
        /\ content = chain.at.content
        /\ cursor = chain.at.selection_start + 2

\* The character column of offset cur on its line, and the number of
\* characters of the line that starts at offset from.
column_of(text, cur) == chars_count(Slice(text, line_start(text, cur), cur))
line_length(text, from) == chars_count(Slice(text, from, line_end(text, from)))

\* Whether a line follows the one offset cur is on.
has_next_line(text, cur) == line_end(text, cur) < Len(text)

\* C5: a move down (to an existing next line) followed by a move up comes
\* back to the line it left, at the original column when the next line has
\* at least that many characters and at the column clamped to the next
\* line's length otherwise.
C5_DownUpRestoresColumn ==
    (/\ last2 = "MoveDown"
     /\ last = "MoveUp"
     /\ is_char_boundary(pre2.content, pre2.cursor)
     /\ has_next_line(pre2.content, pre2.cursor))
    => LET text == pre2.content
           col == column_of(text, pre2.cursor)
           next_len == line_length(text, line_end(text, pre2.cursor) + 1)
       IN  /\ ~panicked
           /\ is_char_boundary(text, cursor)
           /\ line_start(text, cursor) = line_start(text, pre2.cursor)
           /\ column_of(text, cursor) = Min(col, next_len)

\* C6: when a next line exists, a move down puts the cursor on the next
\* line, between its start and its end, min(col, next_line_len) characters
\* after its start.
C6_MoveDownColumn ==
    (/\ last = "MoveDown"
     /\ is_char_boundary(pre.content, pre.cursor)
     /\ has_next_line(pre.content, pre.cursor))
    => LET text == pre.content
           col == column_of(text, pre.cursor)
           next_line_start == line_end(text, pre.cursor) + 1
           next_line_end == line_end(text, next_line_start)
           next_line_len == line_length(text, next_line_start)
       IN  /\ ~panicked
           /\ next_line_start <= cursor
           /\ cursor <= next_line_end
           /\ chars_count(Slice(text, next_line_start, cursor))
                  = Min(col, next_line_len)

\* C10: after one expand in the selected state, a further expand changes
\* neither the content nor the selection nor its two offsets.
C10_ExpandIdempotent ==
    (/\ last2 = "ExpandSelection"
     /\ last = "ExpandSelection"
     /\ pre2.selection # <<>>
     /\ ~pre.panicked)
    => /\ ~panicked
       /\ content = pre.content
       /\ selection = pre.selection
       /\ selection_start = pre.selection_start
       /\ selection_end = pre.selection_end

\* C11: in every state the selection's start offset is at most its end
\* offset, and the selection string is empty exactly when the two are equal.
C11_OffsetsOrdered ==
    /\ selection_start <= selection_end
    /\ (selection = <<>>) <=> (selection_start = selection_end)

\* C11 happens: the selection has been widened to more than one character,
\* its offsets are that many bytes apart and the buffer shows it marked.
C11_Witness ==
    /\ chars_count(selection) >= 2
    /\ selection_start < selection_end
    /\ MarkedAtSelection
    /\ ~HasMarker(UnmarkedText)

\* C12: under the four move commands alone, from a cursor on a character
\* boundary, the cursor stays within the content and on a character
\* boundary; a move right before the end goes to the start of the next
\* character (one more character lies before the cursor, none is skipped),
\* so that as many moves as there are characters reach the end, and a move
\* right at the end changes nothing.
C12_MovesStayOnBoundaries ==
    /\ ~panicked
    /\ cursor <= Len(content)
    /\ is_char_boundary(content, cursor)
    /\ (last = "MoveRight" /\ pre.cursor < Len(content))
       => /\ cursor > pre.cursor
          /\ \A k \in (pre.cursor + 1)..(cursor - 1) : ~is_char_boundary(content, k)
          /\ chars_count(Slice(content, 0, cursor))
                 = chars_count(Slice(content, 0, pre.cursor)) + 1
    /\ (last = "MoveRight" /\ pre.cursor = Len(content)) => cursor = pre.cursor

\* C12 happens: two moves right in a row, the second across a two-byte
\* character, have brought the cursor exactly to the end of the content.
C12_Witness ==
    /\ last2 = "MoveRight"
    /\ last = "MoveRight"
    /\ pre2.cursor < pre.cursor
    /\ cursor = pre.cursor + 2
    /\ cursor = Len(content)
    /\ content[pre.cursor + 1] = "C3"

\* The selection state of a state record.
selection_state(s) ==
    <<s.selection, s.selection_start, s.selection_end,
      s.original_selection_start, s.original_selection_end>>

\* C13: a move right at the end of the content, a move left at offset 0, a
\* move down with no newline at or after the cursor and a move up with no
\* newline before the cursor leave cursor and content as they were; and no
\* move command changes the content or the selection state.
C13_MoveNoOps ==
    /\ last \in MoveCommands
       => /\ content = pre.content
          /\ selection_state(State) = selection_state(pre)
    /\ (last = "MoveRight" /\ pre.cursor = Len(pre.content))
       => cursor = pre.cursor
    /\ (last = "MoveLeft" /\ pre.cursor = 0)
       => cursor = pre.cursor
    /\ (/\ last = "MoveDown"
        /\ \A k \in (pre.cursor + 1)..Len(pre.content) : pre.content[k] # "\n")
       => cursor = pre.cursor
    /\ (/\ last = "MoveUp"
        /\ \A k \in 1..Min(pre.cursor, Len(pre.content)) : pre.content[k] # "\n")
       => cursor = pre.cursor

\* C13 happens: with a selection marked in the buffer and the cursor before
\* the end of the only line, a move down was absorbed.
C13_Witness ==
    /\ last = "MoveDown"
    /\ ~panicked
    /\ selection # <<>>
    /\ pre.cursor < Len(pre.content)
    /\ \A k \in 1..Len(pre.content) : pre.content[k] # "\n"
    /\ cursor = pre.cursor
    /\ content = pre.content

\* The words of a text: the maximal runs of characters that are not
\* whitespace, as pairs of first and last position, and the n-th of them in
\* the order of the text.
WordSpans(s) ==
    {sp \in (1..Len(s)) \X (1..Len(s)) :
        /\ sp[1] <= sp[2]
        /\ \A k \in sp[1]..sp[2] : ~is_whitespace(s[k])
        /\ (sp[1] = 1 \/ is_whitespace(s[sp[1] - 1]))
        /\ (sp[2] = Len(s) \/ is_whitespace(s[sp[2] + 1]))}
NthWord(s, n) ==
    LET sp == CHOOSE sp \in WordSpans(s) :
                  Cardinality({q \in WordSpans(s) : q[1] < sp[1]}) = n - 1
    IN  SubSeq(s, sp[1], sp[2])

\* C14: the Capitalized transformation gives the words of the content (its
\* maximal runs of non-whitespace), in order, each with its first character
\* upper-cased and the rest as it was, joined by exactly one space with no
\* space in front or behind: "hello world" gives "Hello World", "" gives "",
\* "a" gives "A"; and applied twice it gives what it gives applied once.
C14_Capitalized ==
    /\ last = "Cap" =>
        LET in == pre.content
            out == content
            n == Cardinality(WordSpans(in))
        IN  /\ Cardinality(WordSpans(out)) = n
            /\ \A k \in 1..Len(out) :
                   is_whitespace(out[k]) =>
                       /\ out[k] = " "
                       /\ 1 < k /\ k < Len(out)
                       /\ ~is_whitespace(out[k - 1])
                       /\ ~is_whitespace(out[k + 1])
            /\ \A i \in 1..n :
                   LET w == NthWord(in, i)
                       v == NthWord(out, i)
                       first == IF w[1] = "C3" THEN 2 ELSE 1
                   IN  /\ Len(v) = Len(w)
                       /\ \A k \in 1..Len(w) :
                              v[k] = IF k <= first THEN upper_byte(w[k]) ELSE w[k]
            /\ (in = hello_world) =>
                   out = <<"H", "e", "l", "l", "o", " ", "W", "o", "r", "l", "d">>
            /\ (in = <<>>) => out = <<>>
            /\ (in = <<"a">>) => out = <<"A">>
    /\ (last2 = "Cap" /\ last = "Cap") => content = pre.content

\* C14 happens: " a\na" was capitalized to "A A", and capitalized again.
C14_Witness ==
    /\ last2 = "Cap"
    /\ last = "Cap"
    /\ pre2.content = <<" ", "a", "\n", "a">>
    /\ pre.content = <<"A", " ", "A">>
    /\ content = <<"A", " ", "A">>

\* C15: no sequence of commands makes a command slice the text at an offset
\* beyond its end or inside a multi-byte character: no command panics.
C15_NoSlicePanic == ~panicked

\* C16: whenever no selection is active the buffer holds no marker, neither
\* "<|" nor "|>".
C16_IdleHasNoMarkers == (selection = <<>>) => ~HasMarker(content)

\* C17: a toggle with no selection active and the cursor before the end of
\* the content selects exactly the one character that starts at the cursor:
\* the offsets are the cursor and the
\* cursor plus the character's byte length, the original offsets are the
\* same pair, the content is the text before the cursor, "<|", the
\* character, "|>", the text after it, and the cursor is 2 further; with
\* the cursor at the end of the content nothing changes.
C17_ToggleOnSelectsCharacter ==
    /\ (/\ last = "ToggleSelection"
        /\ pre.selection = <<>>
        /\ pre.cursor < Len(pre.content))
       => LET text == pre.content
              c == pre.cursor
              n == IF text[c + 1] = "C3" THEN 2 ELSE 1
          IN  /\ ~panicked
              /\ selection = SubSeq(text, c + 1, c + n)
              /\ chars_count(selection) = 1
              /\ is_char_boundary(text, c + n)
              /\ selection_start = c
              /\ selection_end = c + n
              /\ original_selection_start = c
              /\ original_selection_end = c + n
              /\ content = SubSeq(text, 1, c) \o <<"<", "|">> \o selection
                               \o <<"|", ">">> \o SubSeq(text, c + n + 1, Len(text))
              /\ cursor = c + 2
    /\ (/\ last = "ToggleSelection"
        /\ pre.selection = <<>>
        /\ pre.cursor = Len(pre.content))
       => /\ ~panicked
          /\ content = pre.content
          /\ cursor = pre.cursor
          /\ selection_state(State) = selection_state(pre)

\* C18: an expand with a selection active puts the start offset just after
\* the nearest space before the old start (0 if there is none) and the end
\* offset at the nearest space at or after the old end (the length of the
\* marker-free text if there is none), no other character stopping it; the
\* new range contains the old range and the character toggled originally.
C18_ExpandToSpaces ==
    (last = "ExpandSelection" /\ pre.selection # <<>>)
    => LET text == unmarked_text(pre)
           before == {k \in 1..pre.selection_start : k <= Len(text) /\ text[k] = " "}
           after == {k \in (pre.selection_end + 1)..Len(text) : text[k] = " "}
           left == IF before = {} THEN 0
                   ELSE CHOOSE k \in before : \A j \in before : j <= k
           right == IF after = {} THEN Len(text)
                    ELSE (CHOOSE k \in after : \A j \in after : k <= j) - 1
       IN  /\ ~panicked
           /\ selection_start = left
           /\ selection_end = right
           /\ selection_start <= pre.selection_start
           /\ pre.selection_end <= selection_end
           /\ selection_start <= original_selection_start
           /\ original_selection_end <= selection_end

\* C19: once a toggle has made a selection in a buffer whose text holds
\* neither "<|" nor "|>", then through every expand, reduce and move the
\* buffer with its markers stripped is that text, and the toggle that ends
\* the selection gives back that buffer.
C19_TextPreserved ==
    /\ chain.phase = "selected" => strip_markers(content) = chain.at.content
    /\ chain.phase = "restored" => content = chain.at.content

\* C20: with commands dispatched from several threads, while an expand is
\* between reading the selection bounds and writing the selection, the
\* bounds it has read are still the editor's, and while a reduce is between
\* reading the original bounds and writing the selection, the original
\* bounds it has read are still the editor's: no other command has taken
\* the lock and changed them in between.
C20_LockHeldFromReadToWrite ==
    \A p \in Threads :
        /\ procs[p].pc \in {"expand_read", "expand_unlocked"}
           => /\ selection_start = procs[p].b1
              /\ selection_end = procs[p].b2
        /\ procs[p].pc \in {"reduce_read", "reduce_unlocked"}
           => /\ original_selection_start = procs[p].b1
              /\ original_selection_end = procs[p].b2

====
